---- MODULE Spec2Model ----
(***************************************************************************)
(* bluboi: a local control plane for one Bluetooth radio (src/main.go).    *)
(*                                                                         *)
(* HTTP handlers enqueue commands on EventQueue; ProcessEventQueue         *)
(* dispatches each command as a detached goroutine on the SafeAdapter;     *)
(* every component logs on the Logs channel; BroadcastLogs drains Logs and *)
(* starts one detached SafeClients.BroadcastLog per entry; GetEventsHandler*)
(* registers the streaming subscribers.                                    *)
(*                                                                         *)
(* One goroutine step is one action.  A step that takes a mutex is enabled *)
(* only when the mutex is free, a channel send only when the channel has   *)
(* room, a channel receive only when it holds an entry.  The radio driver  *)
(* (tinygo bluetooth) is outside the repository: each driver call succeeds *)
(* or fails nondeterministically.                                          *)
(***************************************************************************)
EXTENDS Integers, Sequences, FiniteSets, TLC

(***************************************************************************)
(* Program constants                                                       *)
(***************************************************************************)
LogsCap == 10
EventQueueCap == 10

(***************************************************************************)
(* Bounds of the environment: how many requests of each kind the clients   *)
(* issue, how many discoveries the driver reports.                         *)
(***************************************************************************)
MaxConnect == 2
MaxDisconnect == 1
MaxScan == 1
MaxOverlap == 2
MaxStop == 1
MaxDiscover == 2
MaxOpen == 2
MaxClients == 3
MaxEarly == 1
MaxEntries == 2

Addrs == {"a1", "a2"}
Names == {"", "n1", "n2"}
NoHandle == 0
Free == <<"free", 0>>

VARIABLES
    EventQueue,   \* chan Event, capacity EventQueueCap
    Logs,         \* chan Log, capacity LogsCap; entries carry a ghost sequence number
    Devices,      \* SafeDevices.Devices: address -> name
    devMu,        \* SafeDevices.mu: Free or <<kind, id>> of the holder
    Connected,    \* SafeAdapter.Connected
    BTDevice,     \* SafeAdapter.BTDevice: NoHandle (nil) or a handle
    adMu,         \* SafeAdapter.mu: 0 (free) or the task holding it
    Clients,      \* SafeClients.Clients: the registered subscriber ids, in order
    clMu,         \* SafeClients.mu: FALSE (free) or TRUE (held)
    tasks,        \* detached goroutines started by ProcessEventQueue and Scan
    streams,      \* GetEventsHandler goroutines, one per opened stream
    pending,      \* BroadcastLog goroutines waiting for SafeClients.mu
    active,       \* the BroadcastLog goroutine inside its loop (while clMu is held)
    panicked,     \* a goroutine panicked: the process is gone
    quota,        \* requests and discoveries the environment may still issue
    nextLog,      \* ghost: sequence number of the next entry sent on Logs
    live,         \* ghost: handles the driver returned and has not disconnected
    sink          \* ghost: per subscriber, the writes made to its ResponseWriter

vars == <<EventQueue, Logs, Devices, devMu, Connected, BTDevice, adMu, Clients, clMu,
          tasks, streams, pending, active, panicked, quota, nextLog, live, sink>>

adapterVars == <<Connected, BTDevice, adMu, live>>
clientVars == <<Clients, clMu, streams, pending, active, sink>>
deviceVars == <<Devices, devMu>>

(***************************************************************************)
(* Log entries and their rendering                                         *)
(***************************************************************************)
RECURSIVE Join(_, _)
Join(elems, sep) ==
    IF Len(elems) = 0 THEN ""
    ELSE IF Len(elems) = 1 THEN elems[1]
    ELSE elems[1] \o sep \o Join(Tail(elems), sep)

LogInfo(info) == [Level |-> "INFO", Msg |-> Join(info, " ")]

LogDeviceInfo(info) == [Level |-> "DEVICE", Msg |-> Join(info, ";")]

LogError(err) == [Level |-> "ERROR", Msg |-> Join(err, " ")]

\* the data line without its quotation marks
LogToSSEBare(l) == "event: " \o l.Level \o "\ndata: " \o l.Msg \o "\n\n"

LogToSSE(l) == "event: " \o l.Level \o "\ndata: \"" \o l.Msg \o "\"\n\n"

Stamp(entry, n) == [Level |-> entry.Level, Msg |-> entry.Msg, id |-> n]

Unstamp(l) == [Level |-> l.Level, Msg |-> l.Msg]

DriverErr == "driver error"

(***************************************************************************)
(* Goroutine records                                                       *)
(***************************************************************************)
AdapterState == [Connected |-> Connected, BTDevice |-> BTDevice]

Idle == [Connected |-> FALSE, BTDevice |-> NoHandle]

\* the zero value of Device: no name, a nil Address
NoDevice == [Name |-> "", Address |-> "nil"]

NewTask(kind, addr, parent) ==
    [kind |-> kind, pc |-> "start", addr |-> addr, name |-> "", parent |-> parent,
     device |-> NoDevice, expired |-> FALSE, pre |-> Idle, post |-> Idle,
     logs |-> <<>>, calls |-> <<>>, disc |-> 0]

TaskIds == DOMAIN tasks

At(t, kind, pc) == tasks[t].kind = kind /\ tasks[t].pc = pc

CanSend == Len(Logs) < LogsCap

\* chan send: Logs <- entry
Sent(entry) == Append(Logs, Stamp(entry, nextLog))

\* the record of task t after it sent `entry` and moved to pc `to`
Logged(t, entry, to) ==
    [tasks EXCEPT ![t].pc = to, ![t].logs = Append(@, entry), ![t].post = AdapterState]

Called(t, op, ok, to) ==
    [tasks EXCEPT ![t].pc = to, ![t].calls = Append(@, [op |-> op, ok |-> ok])]

FreshHandle == CHOOSE h \in 1..(Cardinality(live) + 1) : h \notin live

(***************************************************************************)
(* SafeAdapter.Connect                                                     *)
(***************************************************************************)
\* sa.mu left out: Connect and Disconnect run without mutual exclusion
AdapterLockIgnored == TRUE

AdapterLockFree == adMu = 0

DeviceLockFree == devMu = Free

\* the test of the state left out: every CONNECT goes on to the lookup
ConnectAdmitsAll == FALSE

ConnectRejects == Connected \/ BTDevice # NoHandle

ConnectLock(t) ==
    /\ ~panicked
    /\ At(t, "Connect", "start")
    /\ AdapterLockFree
    /\ adMu' = t
    /\ tasks' = [tasks EXCEPT ![t].pre = AdapterState,
                              ![t].pc = IF ConnectRejects THEN "logConflict" ELSE "exists"]
    /\ UNCHANGED <<EventQueue, Logs, deviceVars, Connected, BTDevice, live, clientVars,
                   panicked, quota, nextLog>>

\* Devices.Exists(address): sd.mu.Lock()
ConnectExistsLock(t) ==
    /\ ~panicked
    /\ At(t, "Connect", "exists")
    /\ DeviceLockFree
    /\ devMu' = <<"task", t>>
    /\ tasks' = [tasks EXCEPT ![t].pc = "existsLocked"]
    /\ UNCHANGED <<EventQueue, Logs, Devices, adapterVars, clientVars, panicked, quota,
                   nextLog>>

\* the lookup answers true for every address
ExistsAlways(addr) == TRUE

Exists(addr) == addr \in DOMAIN Devices

ConnectExists(t) ==
    /\ ~panicked
    /\ At(t, "Connect", "existsLocked")
    /\ devMu' = Free
    /\ tasks' = [tasks EXCEPT ![t].pc = IF Exists(tasks[t].addr) THEN "device"
                                         ELSE "logNotFound"]
    /\ UNCHANGED <<EventQueue, Logs, Devices, adapterVars, clientVars, panicked, quota,
                   nextLog>>

\* Devices.Device(address): the zero Device for a missing key
Device(addr) ==
    IF addr \in DOMAIN Devices THEN [Name |-> Devices[addr], Address |-> addr]
    ELSE NoDevice

ConnectDeviceLock(t) ==
    /\ ~panicked
    /\ At(t, "Connect", "device")
    /\ DeviceLockFree
    /\ devMu' = <<"task", t>>
    /\ tasks' = [tasks EXCEPT ![t].pc = "deviceLocked"]
    /\ UNCHANGED <<EventQueue, Logs, Devices, adapterVars, clientVars, panicked, quota,
                   nextLog>>

ConnectDevice(t) ==
    /\ ~panicked
    /\ At(t, "Connect", "deviceLocked")
    /\ devMu' = Free
    /\ tasks' = [tasks EXCEPT ![t].pc = "connect", ![t].device = Device(tasks[t].addr)]
    /\ UNCHANGED <<EventQueue, Logs, Devices, adapterVars, clientVars, panicked, quota,
                   nextLog>>

\* the flag is set and the handle dropped
ConnectsFlagOnly(ok) ==
    IF ok THEN [Connected |-> TRUE, BTDevice |-> NoHandle] ELSE AdapterState

\* if err != nil { ...; return }; sa.BTDevice = dvc; sa.Connected = true
Connects(ok) ==
    IF ok THEN [Connected |-> TRUE, BTDevice |-> FreshHandle] ELSE AdapterState

\* sa.Adapter.Connect(*device.Address, ...), which dereferences device.Address, and
\* the assignments that follow it
ConnectDriver(t) ==
    /\ ~panicked
    /\ At(t, "Connect", "connect")
    /\ IF tasks[t].device.Address = "nil"
       THEN /\ panicked' = TRUE
            /\ UNCHANGED <<tasks, Connected, BTDevice, live>>
       ELSE /\ \E ok \in BOOLEAN :
                 /\ Connected' = Connects(ok).Connected
                 /\ BTDevice' = Connects(ok).BTDevice
                 /\ live' = IF ok THEN live \cup {FreshHandle} ELSE live
                 /\ tasks' = Called(t, "connect", ok,
                                    IF ok THEN "logConnected" ELSE "logFailed")
            /\ UNCHANGED panicked
    /\ UNCHANGED <<EventQueue, Logs, deviceVars, adMu, clientVars, quota, nextLog>>

ConnectEntry(t) ==
    CASE tasks[t].pc = "logConflict" -> LogError(<<"You're already connected.">>)
      [] tasks[t].pc = "logNotFound" -> LogError(<<"Could not find the device.">>)
      [] tasks[t].pc = "logFailed" ->
            LogError(<<"Could not connect to ", tasks[t].device.Name, DriverErr>>)
      [] tasks[t].pc = "logConnected" -> LogInfo(<<"Connected to", tasks[t].device.Name>>)

\* the LogError / LogInfo of the path taken, then the deferred sa.mu.Unlock()
ConnectLog(t) ==
    /\ ~panicked
    /\ tasks[t].kind = "Connect"
    /\ tasks[t].pc \in {"logConflict", "logNotFound", "logFailed", "logConnected"}
    /\ CanSend
    /\ Logs' = Sent(ConnectEntry(t))
    /\ nextLog' = nextLog + 1
    /\ tasks' = Logged(t, ConnectEntry(t), "done")
    /\ adMu' = 0
    /\ UNCHANGED <<EventQueue, deviceVars, Connected, BTDevice, live, clientVars, panicked,
                   quota>>

(***************************************************************************)
(* SafeAdapter.Disconnect                                                  *)
(***************************************************************************)
DisconnectRejects == ~Connected \/ BTDevice = NoHandle

DisconnectLock(t) ==
    /\ ~panicked
    /\ At(t, "Disconnect", "start")
    /\ AdapterLockFree
    /\ adMu' = t
    /\ tasks' = [tasks EXCEPT ![t].pre = AdapterState,
                              ![t].pc = IF DisconnectRejects THEN "logNotConnected"
                                        ELSE "disconnect"]
    /\ UNCHANGED <<EventQueue, Logs, deviceVars, Connected, BTDevice, live, clientVars,
                   panicked, quota, nextLog>>

\* the state is reset before the error is looked at
DisconnectsAnyway(ok) == Idle

\* only the flag is reset: the handle stays
DisconnectKeepsHandle(ok) ==
    IF ok THEN [Connected |-> FALSE, BTDevice |-> BTDevice] ELSE AdapterState

\* if err != nil { ...; return }; sa.Connected = false; sa.BTDevice = nil
Disconnects(ok) == IF ok THEN Idle ELSE AdapterState

\* sa.BTDevice.Disconnect() and the assignments that follow it
DisconnectDriver(t) ==
    /\ ~panicked
    /\ At(t, "Disconnect", "disconnect")
    /\ \E ok \in BOOLEAN :
          /\ Connected' = Disconnects(ok).Connected
          /\ BTDevice' = Disconnects(ok).BTDevice
          /\ live' = IF ok THEN live \ {BTDevice} ELSE live
          /\ tasks' = Called(t, "disconnect", ok,
                             IF ok THEN "logDisconnected" ELSE "logFailed")
    /\ UNCHANGED <<EventQueue, Logs, deviceVars, adMu, clientVars, panicked, quota, nextLog>>

DisconnectEntry(t) ==
    CASE tasks[t].pc = "logNotConnected" ->
            LogError(<<"Currently not connected to any device.">>)
      [] tasks[t].pc = "logFailed" ->
            LogError(<<"Could not disconnect device -", DriverErr>>)
      [] tasks[t].pc = "logDisconnected" -> LogInfo(<<"Disconnected.">>)

DisconnectLog(t) ==
    /\ ~panicked
    /\ tasks[t].kind = "Disconnect"
    /\ tasks[t].pc \in {"logNotConnected", "logFailed", "logDisconnected"}
    /\ CanSend
    /\ Logs' = Sent(DisconnectEntry(t))
    /\ nextLog' = nextLog + 1
    /\ tasks' = Logged(t, DisconnectEntry(t), "done")
    /\ adMu' = 0
    /\ UNCHANGED <<EventQueue, deviceVars, Connected, BTDevice, live, clientVars, panicked,
                   quota>>

(***************************************************************************)
(* SafeAdapter.StopScan                                                    *)
(***************************************************************************)
StopScanDriver(t) ==
    /\ ~panicked
    /\ At(t, "StopScan", "start")
    /\ \E ok \in BOOLEAN :
          tasks' = Called(t, "stop", ok, IF ok THEN "logStopped" ELSE "logFailed")
    /\ UNCHANGED <<EventQueue, Logs, deviceVars, adapterVars, clientVars, panicked, quota,
                   nextLog>>

\* the failure is not looked at
StopScanAlwaysInfo(t) == LogInfo(<<"Stopped Scanning.">>)

StopScanEntry(t) ==
    IF tasks[t].pc = "logFailed" THEN LogError(<<"Could not stop scanning -", DriverErr>>)
    ELSE LogInfo(<<"Stopped Scanning.">>)

StopScanLog(t) ==
    /\ ~panicked
    /\ tasks[t].kind = "StopScan"
    /\ tasks[t].pc \in {"logStopped", "logFailed"}
    /\ CanSend
    /\ Logs' = Sent(StopScanEntry(t))
    /\ nextLog' = nextLog + 1
    /\ tasks' = Logged(t, StopScanEntry(t), "done")
    /\ UNCHANGED <<EventQueue, deviceVars, adapterVars, clientVars, panicked, quota>>

(***************************************************************************)
(* SafeAdapter.Scan: the goroutine that logs, starts the driver scan in a  *)
(* goroutine of its own and spins until the deadline                       *)
(***************************************************************************)
\* LogInfo("Scanning...") and go func() { sa.Adapter.Scan(...) }()
ScanStart(t) ==
    /\ ~panicked
    /\ At(t, "Scan", "start")
    /\ CanSend
    /\ Logs' = Sent(LogInfo(<<"Scanning...">>))
    /\ nextLog' = nextLog + 1
    /\ tasks' = Append(Logged(t, LogInfo(<<"Scanning...">>), "spin"),
                       NewTask("ScanDriver", "", t))
    /\ UNCHANGED <<EventQueue, deviceVars, adapterVars, clientVars, panicked, quota>>

\* the context's timeout fires
DeadlineExpires(t) ==
    /\ ~panicked
    /\ At(t, "Scan", "spin")
    /\ ~tasks[t].expired
    /\ tasks' = [tasks EXCEPT ![t].expired = TRUE]
    /\ UNCHANGED <<EventQueue, Logs, deviceVars, adapterVars, clientVars, panicked, quota,
                   nextLog>>

\* the stop is issued without waiting for ctx.Done()
DeadlineIgnored(t) == TRUE

DeadlineReached(t) == tasks[t].expired

\* case <-ctx.Done(): err := sa.Adapter.StopScan()
ScanDeadlineStop(t) ==
    /\ ~panicked
    /\ At(t, "Scan", "spin")
    /\ DeadlineReached(t)
    /\ \E ok \in BOOLEAN :
          tasks' = Called(t, "stop", ok, IF ok THEN "logStopped" ELSE "done")
    /\ UNCHANGED <<EventQueue, Logs, deviceVars, adapterVars, clientVars, panicked, quota,
                   nextLog>>

ScanLogStopped(t) ==
    /\ ~panicked
    /\ At(t, "Scan", "logStopped")
    /\ CanSend
    /\ Logs' = Sent(LogInfo(<<"Stopped Scanning.">>))
    /\ nextLog' = nextLog + 1
    /\ tasks' = Logged(t, LogInfo(<<"Stopped Scanning.">>), "done")
    /\ UNCHANGED <<EventQueue, deviceVars, adapterVars, clientVars, panicked, quota>>

(***************************************************************************)
(* The goroutine inside Scan: sa.Adapter.Scan(callback), which blocks,     *)
(* calls the callback for each discovery and returns nil or an error       *)
(***************************************************************************)
\* the driver reports (a, n); the callback returns at once on an empty name
Discover(t, a, n) ==
    /\ ~panicked
    /\ At(t, "ScanDriver", "start")
    /\ quota.discover > 0
    /\ quota' = [quota EXCEPT !.discover = @ - 1]
    /\ tasks' = [tasks EXCEPT ![t].disc = @ + 1,
                              ![t].addr = a,
                              ![t].name = n,
                              ![t].pc = IF n = "" THEN "start" ELSE "cbExists"]
    /\ UNCHANGED <<EventQueue, Logs, deviceVars, adapterVars, clientVars, panicked,
                   nextLog>>

\* if Devices.Exists(result.Address.String()) { return }
CallbackExists(t) ==
    /\ ~panicked
    /\ At(t, "ScanDriver", "cbExists")
    /\ DeviceLockFree
    /\ tasks' = [tasks EXCEPT ![t].pc = IF Exists(tasks[t].addr) THEN "start" ELSE "cbAdd"]
    /\ UNCHANGED <<EventQueue, Logs, deviceVars, adapterVars, clientVars, panicked, quota,
                   nextLog>>

\* SafeDevices.Add: sd.Devices[device.Address.String()] = device
Add(device) ==
    [a \in DOMAIN Devices \cup {device.Address} |->
        IF a = device.Address THEN device.Name ELSE Devices[a]]

CallbackAdd(t) ==
    /\ ~panicked
    /\ At(t, "ScanDriver", "cbAdd")
    /\ DeviceLockFree
    /\ Devices' = Add([Name |-> tasks[t].name, Address |-> tasks[t].addr])
    /\ tasks' = [tasks EXCEPT ![t].pc = "cbLog"]
    /\ UNCHANGED <<EventQueue, Logs, devMu, adapterVars, clientVars, panicked, quota,
                   nextLog>>

CallbackLog(t) ==
    /\ ~panicked
    /\ At(t, "ScanDriver", "cbLog")
    /\ CanSend
    /\ Logs' = Sent(LogDeviceInfo(<<tasks[t].addr, tasks[t].name>>))
    /\ nextLog' = nextLog + 1
    /\ tasks' = Logged(t, LogDeviceInfo(<<tasks[t].addr, tasks[t].name>>), "start")
    /\ UNCHANGED <<EventQueue, deviceVars, adapterVars, clientVars, panicked, quota>>

\* sa.Adapter.Scan returns
DriverScanReturns(t) ==
    /\ ~panicked
    /\ At(t, "ScanDriver", "start")
    /\ \E ok \in BOOLEAN :
          tasks' = Called(t, "scan", ok, IF ok THEN "done" ELSE "logFailed")
    /\ UNCHANGED <<EventQueue, Logs, deviceVars, adapterVars, clientVars, panicked, quota,
                   nextLog>>

DriverScanLog(t) ==
    /\ ~panicked
    /\ At(t, "ScanDriver", "logFailed")
    /\ CanSend
    /\ Logs' = Sent(LogError(<<DriverErr>>))
    /\ nextLog' = nextLog + 1
    /\ tasks' = Logged(t, LogError(<<DriverErr>>), "done")
    /\ UNCHANGED <<EventQueue, deviceVars, adapterVars, clientVars, panicked, quota>>

(***************************************************************************)
(* The command handlers and ProcessEventQueue                              *)
(***************************************************************************)
CanEnqueue == Len(EventQueue) < EventQueueCap

Enqueue(type, data) == Append(EventQueue, [Type |-> type, Data |-> data])

ScanHandler ==
    /\ ~panicked
    /\ quota.scan > 0
    /\ CanEnqueue
    /\ EventQueue' = Enqueue("SCAN", "")
    /\ quota' = [quota EXCEPT !.scan = @ - 1]
    /\ UNCHANGED <<Logs, deviceVars, adapterVars, clientVars, tasks, panicked, nextLog>>

StopScanHandler ==
    /\ ~panicked
    /\ quota.stop > 0
    /\ CanEnqueue
    /\ EventQueue' = Enqueue("STOP_SCAN", "")
    /\ quota' = [quota EXCEPT !.stop = @ - 1]
    /\ UNCHANGED <<Logs, deviceVars, adapterVars, clientVars, tasks, panicked, nextLog>>

ConnectHandler(addr) ==
    /\ ~panicked
    /\ quota.connect > 0
    /\ CanEnqueue
    /\ EventQueue' = Enqueue("CONNECT", addr)
    /\ quota' = [quota EXCEPT !.connect = @ - 1]
    /\ UNCHANGED <<Logs, deviceVars, adapterVars, clientVars, tasks, panicked, nextLog>>

DisconnectHandler ==
    /\ ~panicked
    /\ quota.disconnect > 0
    /\ CanEnqueue
    /\ EventQueue' = Enqueue("DISCONNECT", "")
    /\ quota' = [quota EXCEPT !.disconnect = @ - 1]
    /\ UNCHANGED <<Logs, deviceVars, adapterVars, clientVars, tasks, panicked, nextLog>>

Dispatched(e) ==
    CASE e.Type = "SCAN" -> NewTask("Scan", "", 0)
      [] e.Type = "STOP_SCAN" -> NewTask("StopScan", "", 0)
      [] e.Type = "CONNECT" -> NewTask("Connect", e.Data, 0)
      [] e.Type = "DISCONNECT" -> NewTask("Disconnect", "", 0)

\* e := <-EventQueue; go Adapter.<operation>
ProcessEventQueue ==
    /\ ~panicked
    /\ Len(EventQueue) > 0
    /\ EventQueue' = Tail(EventQueue)
    /\ tasks' = Append(tasks, Dispatched(Head(EventQueue)))
    /\ UNCHANGED <<Logs, deviceVars, adapterVars, clientVars, panicked, quota, nextLog>>

(***************************************************************************)
(* GetEventsHandler: one goroutine per opened stream; the stream's number  *)
(* stands for its uuid                                                     *)
(***************************************************************************)
StreamIds == DOMAIN streams

NewStream ==
    [pc |-> "purgeLogs", index |-> 0, todo |-> {}, replayed |-> {}, cancelled |-> FALSE,
     overdue |-> FALSE, slow |-> FALSE]

OpenStream ==
    /\ ~panicked
    /\ quota.open > 0
    /\ quota' = [quota EXCEPT !.open = @ - 1]
    /\ streams' = Append(streams, NewStream)
    /\ sink' = Append(sink, <<>>)
    /\ UNCHANGED <<EventQueue, Logs, deviceVars, adapterVars, Clients, clMu, tasks, pending,
                   active, panicked, nextLog>>

\* the request's context is cancelled (the client went away)
Cancel(c) ==
    /\ ~panicked
    /\ ~streams[c].cancelled
    /\ streams' = [streams EXCEPT ![c].cancelled = TRUE]
    /\ UNCHANGED <<EventQueue, Logs, deviceVars, adapterVars, Clients, clMu, tasks, pending,
                   active, panicked, quota, nextLog, sink>>

\* the client stops reading its connection: once the connection's buffers are
\* full, a Write to it blocks (the server sets no WriteTimeout)
Stall(c) ==
    /\ ~panicked
    /\ ~streams[c].slow
    /\ streams' = [streams EXCEPT ![c].slow = TRUE]
    /\ UNCHANGED <<EventQueue, Logs, deviceVars, adapterVars, Clients, clMu, tasks, pending,
                   active, panicked, quota, nextLog, sink>>

\* for len(Logs) > 0
PurgeLogsTest(c) ==
    /\ ~panicked
    /\ streams[c].pc = "purgeLogs"
    /\ streams' = [streams EXCEPT ![c].pc = IF Len(Logs) > 0 THEN "recvLogs"
                                            ELSE "purgeEvents"]
    /\ UNCHANGED <<EventQueue, Logs, deviceVars, adapterVars, Clients, clMu, tasks, pending,
                   active, panicked, quota, nextLog, sink>>

\* <-Logs
PurgeLogsRecv(c) ==
    /\ ~panicked
    /\ streams[c].pc = "recvLogs"
    /\ Len(Logs) > 0
    /\ Logs' = Tail(Logs)
    /\ streams' = [streams EXCEPT ![c].pc = "purgeLogs"]
    /\ UNCHANGED <<EventQueue, deviceVars, adapterVars, Clients, clMu, tasks, pending,
                   active, panicked, quota, nextLog, sink>>

\* for len(EventQueue) > 0
PurgeEventsTest(c) ==
    /\ ~panicked
    /\ streams[c].pc = "purgeEvents"
    /\ streams' = [streams EXCEPT ![c].pc = IF Len(EventQueue) > 0 THEN "recvEvents"
                                            ELSE "length"]
    /\ UNCHANGED <<EventQueue, Logs, deviceVars, adapterVars, Clients, clMu, tasks, pending,
                   active, panicked, quota, nextLog, sink>>

\* <-EventQueue
PurgeEventsRecv(c) ==
    /\ ~panicked
    /\ streams[c].pc = "recvEvents"
    /\ Len(EventQueue) > 0
    /\ EventQueue' = Tail(EventQueue)
    /\ streams' = [streams EXCEPT ![c].pc = "purgeEvents"]
    /\ UNCHANGED <<Logs, deviceVars, adapterVars, Clients, clMu, tasks, pending, active,
                   panicked, quota, nextLog, sink>>

ClientLockFree == ~clMu

\* index := Clients.Length()
StreamLength(c) ==
    /\ ~panicked
    /\ streams[c].pc = "length"
    /\ ClientLockFree
    /\ streams' = [streams EXCEPT ![c].pc = "add", ![c].index = Len(Clients)]
    /\ UNCHANGED <<EventQueue, Logs, deviceVars, adapterVars, Clients, clMu, tasks, pending,
                   active, panicked, quota, nextLog, sink>>

AddClient(client) == Append(Clients, client)

StreamAdd(c) ==
    /\ ~panicked
    /\ streams[c].pc = "add"
    /\ ClientLockFree
    /\ Clients' = AddClient(c)
    /\ streams' = [streams EXCEPT ![c].pc = "flush"]
    /\ UNCHANGED <<EventQueue, Logs, deviceVars, adapterVars, clMu, tasks, pending, active,
                   panicked, quota, nextLog, sink>>

\* SafeClients.Flush(index): sc.Clients[index] panics when index is out of range
StreamFlush(c) ==
    /\ ~panicked
    /\ streams[c].pc = "flush"
    /\ ClientLockFree
    /\ IF streams[c].index >= Len(Clients)
       THEN panicked' = TRUE /\ UNCHANGED streams
       ELSE streams' = [streams EXCEPT ![c].pc = "forEach"] /\ UNCHANGED panicked
    /\ UNCHANGED <<EventQueue, Logs, deviceVars, adapterVars, Clients, clMu, tasks, pending,
                   active, quota, nextLog, sink>>

\* Devices.ForEach: sd.mu.Lock(), held until every callback has returned
StreamForEach(c) ==
    /\ ~panicked
    /\ streams[c].pc = "forEach"
    /\ DeviceLockFree
    /\ IF DOMAIN Devices = {}
       THEN streams' = [streams EXCEPT ![c].pc = "wait"] /\ UNCHANGED devMu
       ELSE /\ devMu' = <<"stream", c>>
            /\ streams' = [streams EXCEPT ![c].pc = "replay",
                                          ![c].todo = DOMAIN Devices,
                                          ![c].replayed = DOMAIN Devices]
    /\ UNCHANGED <<EventQueue, Logs, Devices, adapterVars, Clients, clMu, tasks, pending,
                   active, panicked, quota, nextLog, sink>>

\* one callback of the traversal: LogDeviceInfo(device.Address.String(), device.Name);
\* the map is visited in no particular order
StreamReplay(c) ==
    /\ ~panicked
    /\ streams[c].pc = "replay"
    /\ CanSend
    /\ \E a \in streams[c].todo :
          /\ Logs' = Sent(LogDeviceInfo(<<a, Devices[a]>>))
          /\ streams' = [streams EXCEPT
                            ![c].todo = @ \ {a},
                            ![c].pc = IF streams[c].todo = {a} THEN "wait" ELSE "replay"]
          /\ devMu' = IF streams[c].todo = {a} THEN Free ELSE devMu
    /\ nextLog' = nextLog + 1
    /\ UNCHANGED <<EventQueue, Devices, adapterVars, Clients, clMu, tasks, pending, active,
                   panicked, quota, sink>>

\* SafeClients.RemoveClient(id): drops the first entry with that id, if any
RemoveClient(id) ==
    IF \E i \in 1..Len(Clients) : Clients[i] = id
    THEN LET i == CHOOSE j \in 1..Len(Clients) :
                     Clients[j] = id /\ \A k \in 1..(j - 1) : Clients[k] # id
         IN SubSeq(Clients, 1, i - 1) \o SubSeq(Clients, i + 1, Len(Clients))
    ELSE Clients

\* case <-r.Context().Done(): Clients.RemoveClient(id)
StreamRemove(c) ==
    /\ ~panicked
    /\ streams[c].pc = "wait"
    /\ streams[c].cancelled
    /\ ClientLockFree
    /\ Clients' = RemoveClient(c)
    /\ streams' = [streams EXCEPT ![c].pc = "closed"]
    /\ UNCHANGED <<EventQueue, Logs, deviceVars, adapterVars, clMu, tasks, pending, active,
                   panicked, quota, nextLog, sink>>

(***************************************************************************)
(* BroadcastLogs and SafeClients.BroadcastLog                              *)
(***************************************************************************)
\* the loop without the go statement: it runs each delivery itself and receives
\* the next entry when that delivery has returned
BroadcastLogsInline ==
    /\ ~panicked
    /\ Len(Logs) > 0
    /\ pending = {}
    /\ ~clMu
    /\ Logs' = Tail(Logs)
    /\ pending' = {[frame |-> LogToSSE(Head(Logs)), id |-> Head(Logs).id]}
    /\ UNCHANGED <<EventQueue, deviceVars, adapterVars, Clients, clMu, tasks, streams,
                   active, panicked, quota, nextLog, sink>>

\* l := <-Logs; go Clients.BroadcastLog(LogToSSE(&l))
BroadcastLogs ==
    /\ ~panicked
    /\ Len(Logs) > 0
    /\ Logs' = Tail(Logs)
    /\ pending' = pending \cup {[frame |-> LogToSSE(Head(Logs)), id |-> Head(Logs).id]}
    /\ UNCHANGED <<EventQueue, deviceVars, adapterVars, Clients, clMu, tasks, streams,
                   active, panicked, quota, nextLog, sink>>

\* sc.mu.Lock(); the range expression sc.Clients is evaluated once: the loop visits
\* the first n slots of the backing array, whatever sc.Clients becomes
BroadcastLock(b) ==
    /\ ~panicked
    /\ b \in pending
    /\ ClientLockFree
    /\ clMu' = TRUE
    /\ pending' = pending \ {b}
    /\ active' = [frame |-> b.frame, id |-> b.id, i |-> 0, n |-> Len(Clients),
                  arr |-> Clients,
                  gone |-> {c \in StreamIds : streams[c].cancelled},
                  start |-> Clients, failed |-> {}]
    /\ UNCHANGED <<EventQueue, Logs, deviceVars, adapterVars, Clients, tasks, streams,
                   panicked, quota, nextLog, sink>>

\* sc.Clients[i+1:] panics when i+1 exceeds len(sc.Clients)
SliceOutOfRange(i) == i + 1 > Len(Clients)

\* append(sc.Clients[:i], sc.Clients[i+1:]...), i counted from 0
RemoveAt(i) == SubSeq(Clients, 1, i) \o SubSeq(Clients, i + 2, Len(Clients))

\* what that append does to the backing array: the entries after i move down one
\* slot, the slots from len(sc.Clients)-1 on keep what they held
Shifted(arr, i) ==
    [k \in 1..Len(arr) |-> IF k > i /\ k < Len(Clients) THEN arr[k + 1] ELSE arr[k]]

\* one iteration of for i, client := range sc.Clients; w.Write(l) does not return
\* while the client does not read
BroadcastWrite ==
    /\ ~panicked
    /\ clMu
    /\ active.i < active.n
    /\ LET i == active.i
           client == active.arr[i + 1]
       IN \E ok \in BOOLEAN :
            /\ ~streams[client].slow
            /\ sink' = IF ok
                       THEN [sink EXCEPT ![client] =
                               Append(@, [id |-> active.id, frame |-> active.frame,
                                          late |-> streams[client].cancelled])]
                       ELSE sink
            /\ IF ~ok \/ streams[client].cancelled
               THEN IF SliceOutOfRange(i)
                    THEN /\ panicked' = TRUE
                         /\ UNCHANGED <<Clients, active>>
                    ELSE /\ Clients' = RemoveAt(i)
                         /\ active' = [active EXCEPT
                                         !.i = i + 1, !.arr = Shifted(@, i),
                                         !.failed = IF ok THEN @ ELSE @ \cup {client}]
                         /\ UNCHANGED panicked
               ELSE /\ active' = [active EXCEPT !.i = i + 1]
                    /\ UNCHANGED <<Clients, panicked>>
    /\ UNCHANGED <<EventQueue, Logs, deviceVars, adapterVars, clMu, tasks, streams, pending,
                   quota, nextLog>>

NoBroadcast ==
    [frame |-> "", id |-> 0, i |-> 0, n |-> 0, arr |-> <<>>, gone |-> {}, start |-> <<>>,
     failed |-> {}]

InList(c) == \E k \in 1..Len(Clients) : Clients[k] = c

\* the loop is over: the deferred sc.mu.Unlock()
BroadcastUnlock ==
    /\ ~panicked
    /\ clMu
    /\ active.i = active.n
    /\ clMu' = FALSE
    /\ active' = NoBroadcast
    /\ streams' = [c \in StreamIds |->
                     [streams[c] EXCEPT !.overdue = @ \/ (c \in active.gone /\ InList(c))]]
    /\ UNCHANGED <<EventQueue, Logs, deviceVars, adapterVars, Clients, tasks, pending,
                   panicked, quota, nextLog, sink>>

(***************************************************************************)
(* Specifications                                                          *)
(***************************************************************************)
NoQuota == [connect |-> 0, disconnect |-> 0, scan |-> 0, stop |-> 0, discover |-> 0,
            open |-> 0]

\* registries that completed scans can leave behind: empty, one device, two devices
Registries ==
    {[a \in D |-> IF a = "a1" THEN "n1" ELSE "n2"] : D \in {{}, {"a1"}, {"a1", "a2"}}}

\* the state after construction (the package-level var block), with registry r
Constructed(r, q) ==
    /\ EventQueue = <<>>
    /\ Logs = <<>>
    /\ Devices = r
    /\ devMu = Free
    /\ Connected = FALSE
    /\ BTDevice = NoHandle
    /\ adMu = 0
    /\ Clients = <<>>
    /\ clMu = FALSE
    /\ tasks = <<>>
    /\ streams = <<>>
    /\ pending = {}
    /\ active = NoBroadcast
    /\ panicked = FALSE
    /\ quota = q
    /\ nextLog = 1
    /\ live = {}
    /\ sink = <<>>

ConnectSteps ==
    \/ \E t \in TaskIds : ConnectLock(t)
    \/ \E t \in TaskIds : ConnectExistsLock(t)
    \/ \E t \in TaskIds : ConnectExists(t)
    \/ \E t \in TaskIds : ConnectDeviceLock(t)
    \/ \E t \in TaskIds : ConnectDevice(t)
    \/ \E t \in TaskIds : ConnectDriver(t)
    \/ \E t \in TaskIds : ConnectLog(t)

DisconnectSteps ==
    \/ \E t \in TaskIds : DisconnectLock(t)
    \/ \E t \in TaskIds : DisconnectDriver(t)
    \/ \E t \in TaskIds : DisconnectLog(t)

StopScanSteps ==
    \/ \E t \in TaskIds : StopScanDriver(t)
    \/ \E t \in TaskIds : StopScanLog(t)

ScanSteps ==
    \/ \E t \in TaskIds : ScanStart(t)
    \/ \E t \in TaskIds : DeadlineExpires(t)
    \/ \E t \in TaskIds : ScanDeadlineStop(t)
    \/ \E t \in TaskIds : ScanLogStopped(t)
    \/ \E t \in TaskIds, a \in Addrs, n \in Names : Discover(t, a, n)
    \/ \E t \in TaskIds : CallbackExists(t)
    \/ \E t \in TaskIds : CallbackAdd(t)
    \/ \E t \in TaskIds : CallbackLog(t)
    \/ \E t \in TaskIds : DriverScanReturns(t)
    \/ \E t \in TaskIds : DriverScanLog(t)

StreamSteps ==
    \/ OpenStream
    \/ \E c \in StreamIds : Cancel(c)
    \/ \E c \in StreamIds : PurgeLogsTest(c)
    \/ \E c \in StreamIds : PurgeLogsRecv(c)
    \/ \E c \in StreamIds : PurgeEventsTest(c)
    \/ \E c \in StreamIds : PurgeEventsRecv(c)
    \/ \E c \in StreamIds : StreamLength(c)
    \/ \E c \in StreamIds : StreamAdd(c)
    \/ \E c \in StreamIds : StreamFlush(c)
    \/ \E c \in StreamIds : StreamForEach(c)
    \/ \E c \in StreamIds : StreamReplay(c)
    \/ \E c \in StreamIds : StreamRemove(c)

BroadcastSteps ==
    \/ BroadcastLogs
    \/ \E b \in pending : BroadcastLock(b)
    \/ BroadcastWrite
    \/ BroadcastUnlock

\* the whole program
Init == Constructed([a \in {} |-> ""],
                    [connect |-> MaxConnect, disconnect |-> MaxDisconnect,
                     scan |-> MaxScan, stop |-> MaxStop, discover |-> MaxDiscover,
                     open |-> MaxOpen])

Next ==
    \/ ScanHandler
    \/ StopScanHandler
    \/ \E a \in Addrs : ConnectHandler(a)
    \/ DisconnectHandler
    \/ ProcessEventQueue
    \/ ConnectSteps
    \/ DisconnectSteps
    \/ StopScanSteps
    \/ ScanSteps
    \/ StreamSteps
    \/ BroadcastSteps

Spec == Init /\ [][Next]_vars

\* connect and disconnect commands against a registry that scans have filled; the
\* commands log fewer than LogsCap entries, so that Logs keeps every entry sent
InitAdapter ==
    \E r \in Registries :
       Constructed(r, [NoQuota EXCEPT !.connect = MaxConnect,
                                      !.disconnect = MaxDisconnect])

NextAdapter ==
    \/ \E a \in Addrs : ConnectHandler(a)
    \/ DisconnectHandler
    \/ ProcessEventQueue
    \/ ConnectSteps
    \/ DisconnectSteps

SpecAdapter == InitAdapter /\ [][NextAdapter]_vars

\* scan and stop commands against an empty registry
InitScan ==
    Constructed([a \in {} |-> ""],
                [NoQuota EXCEPT !.scan = MaxScan, !.stop = MaxStop,
                                !.discover = MaxDiscover])

NextScan ==
    \/ ScanHandler
    \/ StopScanHandler
    \/ ProcessEventQueue
    \/ StopScanSteps
    \/ ScanSteps

SpecScan == InitScan /\ [][NextScan]_vars

\* scans that overlap and report the same devices
InitOverlap ==
    Constructed([a \in {} |-> ""],
                [NoQuota EXCEPT !.scan = MaxOverlap, !.discover = MaxDiscover])

NextOverlap ==
    \/ ScanHandler
    \/ ProcessEventQueue
    \/ ScanSteps

SpecOverlap == InitOverlap /\ [][NextOverlap]_vars

\* streams opened against a registry that a scan has filled, and a stop command
InitStream ==
    \E r \in {x \in Registries : Cardinality(DOMAIN x) = 1} :
       Constructed(r, [NoQuota EXCEPT !.open = MaxOpen, !.stop = MaxStop])

NextStream ==
    \/ StopScanHandler
    \/ ProcessEventQueue
    \/ StopScanSteps
    \/ StreamSteps
    \/ BroadcastSteps

SpecStream == InitStream /\ [][NextStream]_vars

\* streams opened while MaxEarly subscribers, registered before the scan, wait and
\* a stop command sits in the queue; the event loop does not run in the meantime
Waiting(n) == [c \in 1..n |-> [NewStream EXCEPT !.pc = "wait", !.index = c - 1]]

InitJoin ==
    /\ EventQueue = <<[Type |-> "STOP_SCAN", Data |-> ""]>>
    /\ Logs = <<>>
    /\ Devices \in {x \in Registries : Cardinality(DOMAIN x) = 1}
    /\ devMu = Free
    /\ Connected = FALSE
    /\ BTDevice = NoHandle
    /\ adMu = 0
    /\ Clients = [c \in 1..MaxEarly |-> c]
    /\ clMu = FALSE
    /\ tasks = <<>>
    /\ streams = Waiting(MaxEarly)
    /\ pending = {}
    /\ active = NoBroadcast
    /\ panicked = FALSE
    /\ quota = [NoQuota EXCEPT !.open = MaxOpen]
    /\ nextLog = 1
    /\ live = {}
    /\ sink = [c \in 1..MaxEarly |-> <<>>]

NextJoin ==
    \/ StreamSteps
    \/ BroadcastSteps

SpecJoin == InitJoin /\ [][NextJoin]_vars

\* the broadcast of queued entries to subscribers that are registered and waiting
SampleEntries == {LogInfo(<<"Scanning...">>), LogError(<<"Could not find the device.">>)}

InitBroadcast ==
    /\ EventQueue = <<>>
    /\ Logs \in {[i \in 1..MaxEntries |-> Stamp(e[i], i)] : e \in [1..MaxEntries -> SampleEntries]}
    /\ Devices = [a \in {} |-> ""]
    /\ devMu = Free
    /\ Connected = FALSE
    /\ BTDevice = NoHandle
    /\ adMu = 0
    /\ Clients = [c \in 1..MaxClients |-> c]
    /\ clMu = FALSE
    /\ tasks = <<>>
    /\ streams = Waiting(MaxClients)
    /\ pending = {}
    /\ active = NoBroadcast
    /\ panicked = FALSE
    /\ quota = NoQuota
    /\ nextLog = MaxEntries + 1
    /\ live = {}
    /\ sink = [c \in 1..MaxClients |-> <<>>]

NextBroadcast ==
    \/ \E c \in StreamIds : Cancel(c)
    \/ \E c \in StreamIds : StreamRemove(c)
    \/ BroadcastSteps

SpecBroadcast == InitBroadcast /\ [][NextBroadcast]_vars

\* the rendering of one entry: a goroutine is about to send an entry (a discovery
\* callback its DEVICE entry, a StopScan its INFO or ERROR entry), the entry is
\* dequeued, rendered and written to the registered subscribers
RenderAddrs == Addrs \cup {"AA:BB:CC:DD:EE:FF"}
RenderNames == (Names \ {""}) \cup {"MyDevice"}

Senders ==
    {[NewTask("ScanDriver", a, 0) EXCEPT !.name = n, !.pc = "cbLog", !.disc = 1] :
        a \in RenderAddrs, n \in RenderNames}
    \cup {[NewTask("StopScan", "", 0) EXCEPT
             !.pc = IF ok THEN "logStopped" ELSE "logFailed",
             !.calls = <<[op |-> "stop", ok |-> ok]>>] : ok \in BOOLEAN}

InitRender ==
    /\ EventQueue = <<>>
    /\ Logs = <<>>
    /\ \E t \in Senders :
          /\ tasks = <<t>>
          /\ Devices = IF t.kind = "ScanDriver" THEN [a \in {t.addr} |-> t.name]
                       ELSE [a \in {} |-> ""]
    /\ devMu = Free
    /\ Connected = FALSE
    /\ BTDevice = NoHandle
    /\ adMu = 0
    /\ Clients = [c \in 1..MaxClients |-> c]
    /\ clMu = FALSE
    /\ streams = Waiting(MaxClients)
    /\ pending = {}
    /\ active = NoBroadcast
    /\ panicked = FALSE
    /\ quota = NoQuota
    /\ nextLog = 1
    /\ live = {}
    /\ sink = [c \in 1..MaxClients |-> <<>>]

NextRender ==
    \/ \E t \in TaskIds : CallbackLog(t)
    \/ \E t \in TaskIds : StopScanLog(t)
    \/ BroadcastSteps

SpecRender == InitRender /\ [][NextRender]_vars

\* the same, with subscribers that may stop reading; the broadcast goroutines are
\* scheduled fairly
NextStall ==
    \/ \E c \in StreamIds : Stall(c)
    \/ NextBroadcast

SpecStall == InitBroadcast /\ [][NextStall]_vars /\ WF_vars(BroadcastSteps)

\* a CONNECT or a DISCONNECT, dispatched while disconnected or while connected, that
\* runs beside one other operation (a scan, a stop, or a stream being opened while a
\* stop command waits in the queue); the subscriber stays connected
InitMixed ==
    \E st \in {Idle, [Connected |-> TRUE, BTDevice |-> 1]},
       a \in {NewTask("Connect", "a1", 0), NewTask("Disconnect", "", 0)},
       o \in {"SCAN", "STOP_SCAN", "OPEN"} :
       /\ EventQueue = IF o = "OPEN" THEN <<[Type |-> "STOP_SCAN", Data |-> ""]>> ELSE <<>>
       /\ Logs = <<>>
       /\ Devices = [x \in {"a1"} |-> "n1"]
       /\ devMu = Free
       /\ Connected = st.Connected
       /\ BTDevice = st.BTDevice
       /\ adMu = 0
       /\ Clients = <<>>
       /\ clMu = FALSE
       /\ tasks = CASE o = "SCAN" -> <<a, NewTask("Scan", "", 0)>>
                    [] o = "STOP_SCAN" -> <<a, NewTask("StopScan", "", 0)>>
                    [] o = "OPEN" -> <<a>>
       /\ streams = <<>>
       /\ pending = {}
       /\ active = NoBroadcast
       /\ panicked = FALSE
       /\ quota = [NoQuota EXCEPT !.discover = IF o = "SCAN" THEN 1 ELSE 0,
                                  !.open = IF o = "OPEN" THEN 1 ELSE 0]
       /\ nextLog = 1
       /\ live = IF st.Connected THEN {st.BTDevice} ELSE {}
       /\ sink = <<>>

NextMixed ==
    \/ ConnectSteps
    \/ DisconnectSteps
    \/ StopScanSteps
    \/ ScanSteps
    \/ OpenStream
    \/ \E c \in StreamIds : PurgeLogsTest(c)
    \/ \E c \in StreamIds : PurgeLogsRecv(c)
    \/ \E c \in StreamIds : PurgeEventsTest(c)
    \/ \E c \in StreamIds : PurgeEventsRecv(c)
    \/ \E c \in StreamIds : StreamLength(c)
    \/ \E c \in StreamIds : StreamAdd(c)
    \/ \E c \in StreamIds : StreamFlush(c)
    \/ \E c \in StreamIds : StreamForEach(c)
    \/ \E c \in StreamIds : StreamReplay(c)
    \/ BroadcastSteps

SpecMixed == InitMixed /\ [][NextMixed]_vars

\* one stream opened beside a stop command, every goroutine scheduled fairly: the
\* event loop, the StopScan goroutine, the broadcast loop and its goroutines, and
\* the stream's handler
Handler(c) ==
    /\ c \in StreamIds
    /\ \/ PurgeLogsTest(c)
       \/ PurgeLogsRecv(c)
       \/ PurgeEventsTest(c)
       \/ PurgeEventsRecv(c)
       \/ StreamLength(c)
       \/ StreamAdd(c)
       \/ StreamFlush(c)
       \/ StreamForEach(c)
       \/ StreamReplay(c)
       \/ StreamRemove(c)

InitPurge ==
    \E r \in {x \in Registries : Cardinality(DOMAIN x) = 1} :
       Constructed(r, [NoQuota EXCEPT !.open = 1, !.stop = MaxStop])

SpecPurge ==
    /\ InitPurge
    /\ [][NextStream]_vars
    /\ WF_vars(ProcessEventQueue)
    /\ WF_vars(StopScanSteps)
    /\ WF_vars(BroadcastSteps)
    /\ \A c \in 1..MaxOpen : WF_vars(Handler(c))

\* both queues at capacity.  The Log Stream holds LogsCap entries while a stream
\* handler replays the registry under the registry lock; the only subscriber has
\* stopped reading.  Either a Connect holds the adapter lock with its error entry to
\* send and a DISCONNECT request is about to arrive, or a Connect holds the adapter
\* lock inside the driver's connect call, which does not return, while the Command
\* Queue holds EventQueueCap commands and further requests wait to enqueue
FullLogs == [i \in 1..LogsCap |-> Stamp(LogInfo(<<"Scanning...">>), i)]

FullEventQueue == [i \in 1..EventQueueCap |-> [Type |-> "DISCONNECT", Data |-> ""]]

InitFull ==
    \E radio \in BOOLEAN :
       /\ EventQueue = IF radio THEN FullEventQueue ELSE <<>>
       /\ Logs = FullLogs
       /\ Devices \in {x \in Registries : DOMAIN x = {"a1"}}
       /\ devMu = <<"stream", 1>>
       /\ Connected = FALSE
       /\ BTDevice = NoHandle
       /\ adMu = 1
       /\ Clients = <<1>>
       /\ clMu = FALSE
       /\ tasks = IF radio
                  THEN <<[NewTask("Connect", "a1", 0) EXCEPT
                            !.pc = "connect", !.device = Device("a1")]>>
                  ELSE <<[NewTask("Connect", "a2", 0) EXCEPT !.pc = "logNotFound"]>>
       /\ streams = <<[NewStream EXCEPT !.pc = "replay", !.todo = {"a1"}, !.slow = TRUE]>>
       /\ pending = {}
       /\ active = NoBroadcast
       /\ panicked = FALSE
       /\ quota = [NoQuota EXCEPT !.disconnect = MaxDisconnect]
       /\ nextLog = LogsCap + 1
       /\ live = {}
       /\ sink = <<<<>>>>

NextFull ==
    \/ DisconnectHandler
    \/ ProcessEventQueue
    \/ \E t \in TaskIds : ConnectLog(t)
    \/ \E t \in TaskIds : DisconnectLock(t)
    \/ \E t \in TaskIds : DisconnectLog(t)
    \/ \E c \in StreamIds : StreamReplay(c)
    \/ BroadcastLogs
    \/ \E b \in pending : BroadcastLock(b)

\* every runnable goroutine is scheduled
SpecFull ==
    /\ InitFull
    /\ [][NextFull]_vars
    /\ WF_vars(DisconnectHandler)
    /\ WF_vars(ProcessEventQueue)
    /\ WF_vars(\E t \in TaskIds : ConnectLog(t))
    /\ WF_vars(\E t \in TaskIds : DisconnectLock(t))
    /\ WF_vars(\E t \in TaskIds : DisconnectLog(t))
    /\ WF_vars(\E c \in StreamIds : StreamReplay(c))
    /\ WF_vars(BroadcastLogs)
    /\ WF_vars(\E b \in pending : BroadcastLock(b))


(***************************************************************************)
(* Properties                                                              *)
(***************************************************************************)
ConnectTasks == {t \in TaskIds : tasks[t].kind = "Connect"}
DisconnectTasks == {t \in TaskIds : tasks[t].kind = "Disconnect"}

Errors(t) == {i \in 1..Len(tasks[t].logs) : tasks[t].logs[i].Level = "ERROR"}

Failures(t) == {i \in 1..Len(tasks[t].calls) : ~tasks[t].calls[i].ok}

\* C1: however many Connect goroutines run concurrently, the driver never holds
\* more than one connection that no successful Disconnect has ended: at most one
\* connect call succeeds, and the handle in AdapterState, when there is one, is that
\* single live connection (no second handle ever replaces it).
C1_AtMostOneLiveHandle ==
    /\ Cardinality(live) <= 1
    /\ BTDevice # NoHandle => live = {BTDevice}
    /\ Connected => BTDevice # NoHandle

\* two CONNECTs to known addresses are in flight together: one has connected and
\* still holds the lock, the other waits for it
C1_Witness ==
    \E t1, t2 \in ConnectTasks :
       /\ tasks[t1].pc = "logConnected"
       /\ tasks[t2].pc = "start"
       /\ tasks[t1].addr \in DOMAIN Devices
       /\ tasks[t2].addr \in DOMAIN Devices

\* C7: a CONNECT whose address is not in the Device Registry, run while
\* disconnected, never gets past the lookup: it makes no driver call, and it ends
\* having sent exactly one entry, the ERROR "Could not find the device.", with
\* AdapterState as it found it.
C7_UnknownAddressIsLoggedNoOp ==
    \A t \in ConnectTasks :
       (/\ tasks[t].pc # "start"
        /\ tasks[t].pre = Idle
        /\ tasks[t].addr \notin DOMAIN Devices)
       => /\ tasks[t].pc \in {"exists", "existsLocked", "logNotFound", "done"}
          /\ tasks[t].calls = <<>>
          /\ tasks[t].pc = "done" =>
                /\ tasks[t].logs = <<LogError(<<"Could not find the device.">>)>>
                /\ tasks[t].post = tasks[t].pre
                /\ ~panicked

\* a CONNECT to an unknown address has run to its end against an empty registry
C7_Witness ==
    \E t \in ConnectTasks :
       /\ tasks[t].pc = "done"
       /\ tasks[t].pre = Idle
       /\ DOMAIN Devices = {}
       /\ Len(tasks[t].logs) = 1

\* C10: a CONNECT or DISCONNECT whose driver call fails ends with AdapterState as
\* it found it and exactly one entry sent, an ERROR: disconnected with no handle
\* after a failed connect, connected with the same handle after a failed
\* disconnect; and a CONNECT that finds AdapterState connected or holding a handle
\* makes no driver call and is rejected.
C10_DriverFailureKeepsState ==
    /\ \A t \in ConnectTasks \cup DisconnectTasks :
          (tasks[t].pc = "done" /\ Failures(t) # {})
          => /\ tasks[t].post = tasks[t].pre
             /\ Len(tasks[t].logs) = 1
             /\ Errors(t) = {1}
             /\ tasks[t].kind = "Connect" => tasks[t].post = Idle
             /\ tasks[t].kind = "Disconnect" =>
                   tasks[t].post.Connected /\ tasks[t].post.BTDevice # NoHandle
    /\ \A t \in ConnectTasks :
          (tasks[t].pc # "start" /\ tasks[t].pre # Idle)
          => tasks[t].pc \in {"logConflict", "done"} /\ tasks[t].calls = <<>>

\* a DISCONNECT failed in the driver, and a CONNECT that ran after it was rejected
C10_Witness ==
    \E d \in DisconnectTasks, t \in ConnectTasks :
       /\ tasks[d].pc = "done"
       /\ Failures(d) # {}
       /\ tasks[t].pc = "done"
       /\ tasks[t].pre = tasks[d].post
       /\ Errors(t) = {1}

ScanTasks == {t \in TaskIds : tasks[t].kind = "Scan"}

\* the goroutines Scan t started for the driver's scan
DriversOf(t) == {d \in TaskIds : tasks[d].kind = "ScanDriver" /\ tasks[d].parent = t}

NoDiscoveries(t) == \A d \in DriversOf(t) : tasks[d].disc = 0

DeviceEntries(t) == {i \in 1..Len(tasks[t].logs) : tasks[t].logs[i].Level = "DEVICE"}

Scanning == LogInfo(<<"Scanning...">>)
StoppedScanning == LogInfo(<<"Stopped Scanning.">>)

\* C5 (as claimed): once an address is stored in the Device Registry, no step of
\* any scan changes the name stored for it.
C5_AddKeepsFirstName ==
    [][\A a \in DOMAIN Devices : a \in DOMAIN Devices' /\ Devices'[a] = Devices[a]]_vars

C9_EveryRadioFailureIsLogged ==
    \A t \in TaskIds :
       (tasks[t].pc = "done" /\ Failures(t) # {}) => Errors(t) # {}

\* the sequence numbers of the entries whose frames subscriber c was sent, in order
Received(c) == [i \in 1..Len(sink[c]) |-> sink[c][i].id]

\* C2 (as claimed): every subscriber is sent the frames of the entries in the order
\* in which the entries were put on Logs.
C2_FramesInEnqueueOrder ==
    \A c \in StreamIds :
       \A i, j \in 1..Len(sink[c]) : i < j => sink[c][i].id <= sink[c][j].id

\* C3 (as claimed): between broadcasts, any two subscribers that are registered (and
\* have been since the same moment) have been sent the same frames, as many times
\* and in the same order.
C3_SameFrameSequences ==
    ~clMu => \A c1, c2 \in StreamIds :
                (InList(c1) /\ InList(c2)) => Received(c1) = Received(c2)

\* C4 (as claimed): no broadcast that started after a subscriber's cancellation
\* ends with the subscriber still registered, and no frame is written to a
\* subscriber's sink once it is cancelled.
C4_CancelledIsEvictedAndSilent ==
    \A c \in StreamIds :
       /\ ~streams[c].overdue
       /\ \A i \in 1..Len(sink[c]) : ~sink[c][i].late

\* nothing is queued or in flight, and every handler has finished its replay
Quiescent ==
    /\ Logs = <<>>
    /\ EventQueue = <<>>
    /\ pending = {}
    /\ ~clMu
    /\ \A c \in StreamIds : streams[c].pc \in {"wait", "closed"}
    /\ \A t \in TaskIds : tasks[t].pc = "done"

DeviceFrame(a) == LogToSSE(LogDeviceInfo(<<a, Devices[a]>>))

\* C6 (as claimed): once everything queued has been delivered, a subscriber that is
\* still registered and connected has been sent a DEVICE frame for every device
\* that was in the Device Registry when its replay ran.
C6_NewSubscriberGetsRegistry ==
    Quiescent =>
       \A c \in StreamIds :
          (streams[c].pc = "wait" /\ ~streams[c].cancelled /\ InList(c))
          => \A a \in streams[c].replayed :
                \E i \in 1..Len(sink[c]) : sink[c][i].frame = DeviceFrame(a)

Successes(t) == {i \in 1..Len(tasks[t].calls) : tasks[t].calls[i].ok}

\* C11: a CONNECT that finds AdapterState connected or holding a handle, and a
\* DISCONNECT that finds it not connected, make no driver call and end having
\* sent exactly one entry, an ERROR, with AdapterState as they found it.
C11_StateConflictIsLoggedNoOp ==
    /\ \A t \in ConnectTasks :
          (tasks[t].pc # "start" /\ (tasks[t].pre.Connected \/ tasks[t].pre.BTDevice # NoHandle))
          => /\ tasks[t].pc \in {"logConflict", "done"}
             /\ tasks[t].calls = <<>>
             /\ tasks[t].pc = "logConflict" => tasks[t].logs = <<>> /\ AdapterState = tasks[t].pre
             /\ tasks[t].pc = "done" =>
                   /\ tasks[t].logs = <<LogError(<<"You're already connected.">>)>>
                   /\ tasks[t].post = tasks[t].pre
    /\ \A t \in DisconnectTasks :
          (tasks[t].pc # "start" /\ (~tasks[t].pre.Connected \/ tasks[t].pre.BTDevice = NoHandle))
          => /\ tasks[t].pc \in {"logNotConnected", "done"}
             /\ tasks[t].calls = <<>>
             /\ tasks[t].pc = "logNotConnected" => tasks[t].logs = <<>> /\ AdapterState = tasks[t].pre
             /\ tasks[t].pc = "done" =>
                   /\ tasks[t].logs = <<LogError(<<"Currently not connected to any device.">>)>>
                   /\ tasks[t].post = tasks[t].pre

\* a DISCONNECT was rejected while disconnected, a CONNECT succeeded, and a second
\* CONNECT that ran after it was rejected
C11_Witness ==
    \E d \in DisconnectTasks, t1, t2 \in ConnectTasks :
       /\ tasks[d].pc = "done" /\ tasks[d].pre = Idle
       /\ tasks[t1].pc = "done" /\ Successes(t1) # {}
       /\ tasks[t2].pc = "done" /\ tasks[t2].pre = tasks[t1].post
       /\ tasks[t2].logs = <<LogError(<<"You're already connected.">>)>>

\* C12: a DISCONNECT whose driver call succeeded ends with AdapterState
\* disconnected and without a handle, having sent exactly one entry, INFO
\* "Disconnected."; a CONNECT to a known address that finds that state is not
\* rejected and goes on to the driver; and the driver never holds more than one
\* connection, however often connect and disconnect alternate.
C12_DisconnectResetsAndReadmits ==
    /\ \A d \in DisconnectTasks :
          (tasks[d].pc = "done" /\ Successes(d) # {})
          => /\ tasks[d].post = Idle
             /\ tasks[d].logs = <<LogInfo(<<"Disconnected.">>)>>
             /\ Len(tasks[d].calls) = 1
    /\ \A d \in DisconnectTasks :
          (tasks[d].pc = "logDisconnected") => AdapterState = Idle /\ live = {}
    /\ \A t \in ConnectTasks :
          (tasks[t].pc = "done" /\ tasks[t].pre = Idle /\ tasks[t].addr \in DOMAIN Devices)
          => /\ Len(tasks[t].calls) = 1
             /\ tasks[t].calls[1].op = "connect"
             /\ tasks[t].calls[1].ok => tasks[t].post.Connected
    /\ Cardinality(live) <= 1

\* connect, disconnect, connect: both CONNECTs succeeded, with a successful
\* DISCONNECT between them
C12_Witness ==
    \E d \in DisconnectTasks, t1, t2 \in ConnectTasks :
       /\ t1 # t2
       /\ tasks[t1].pc = "done" /\ Successes(t1) # {}
       /\ tasks[d].pc = "done" /\ Successes(d) # {} /\ tasks[d].pre = tasks[t1].post
       /\ tasks[t2].pc = "done" /\ Successes(t2) # {} /\ tasks[t2].pre = tasks[d].post

\* every entry that was queued has been written to subscriber c
ReceivedAll(c) == \A n \in 1..(nextLog - 1) : \E i \in 1..Len(sink[c]) : sink[c][i].id = n

\* C13 (as claimed): while no subscriber is evicted, every subscriber that keeps
\* reading and stays connected is eventually sent the frame of every queued entry,
\* whether or not another subscriber has stopped reading.
C13_SlowSubscriberStallsNoOne ==
    \A c \in 1..MaxClients :
       <>(\/ streams[c].slow
          \/ streams[c].cancelled
          \/ Len(Clients) < MaxClients
          \/ ReceivedAll(c))

\* C14: every frame written to a subscriber is, for the entry it renders (level L,
\* message M), the text event: L, newline, data: "M", newline, newline, with L one
\* of INFO, DEVICE, ERROR; the entry of a discovery is a DEVICE entry whose message
\* is the address, a semicolon and the name; the discovery of MyDevice at
\* AA:BB:CC:DD:EE:FF is written as event: DEVICE / data: "AA:BB:CC:DD:EE:FF;MyDevice".
C14_FrameIsEventAndQuotedData ==
    \A c \in StreamIds : \A i \in 1..Len(sink[c]) :
       \E t \in TaskIds : \E k \in 1..Len(tasks[t].logs) :
          LET e == tasks[t].logs[k]
          IN /\ e.Level \in {"INFO", "DEVICE", "ERROR"}
             /\ sink[c][i].frame =
                   "event: " \o e.Level \o "\n" \o "data: \"" \o e.Msg \o "\"" \o "\n" \o "\n"
             /\ tasks[t].kind = "ScanDriver" =>
                   /\ e.Level = "DEVICE"
                   /\ e.Msg = tasks[t].addr \o ";" \o tasks[t].name
                   /\ (tasks[t].addr = "AA:BB:CC:DD:EE:FF" /\ tasks[t].name = "MyDevice") =>
                         sink[c][i].frame =
                            "event: DEVICE\ndata: \"AA:BB:CC:DD:EE:FF;MyDevice\"\n\n"

\* the discovery of MyDevice at AA:BB:CC:DD:EE:FF has been written to a subscriber
C14_Witness ==
    \E c \in StreamIds : \E t \in TaskIds :
       /\ tasks[t].addr = "AA:BB:CC:DD:EE:FF"
       /\ tasks[t].name = "MyDevice"
       /\ Len(sink[c]) > 0

\* the locks goroutine t holds
TaskLocks(t) ==
    {m \in {"adapter", "devices"} :
        \/ m = "adapter" /\ adMu = t
        \/ m = "devices" /\ devMu = <<"task", t>>}

\* C15 (as claimed): no goroutine started for a command holds more than one lock
\* at a time.
C15_AtMostOneLockHeld == \A t \in TaskIds : Cardinality(TaskLocks(t)) <= 1

\* C16: whenever sa.mu is free, Connected is true exactly when BTDevice holds a
\* handle; and every step that changes Connected or BTDevice is the driver step of
\* the Connect or Disconnect goroutine that holds sa.mu: it changes no other
\* goroutine, no stream and no broadcast, and no step of a Scan, a StopScan, a
\* stream or a broadcast changes either field.
C16_FlagMatchesHandleOutsideLock ==
    /\ [](adMu = 0 => (Connected <=> BTDevice # NoHandle))
    /\ [][(Connected' # Connected \/ BTDevice' # BTDevice)
           => /\ adMu \in TaskIds
              /\ adMu' = adMu
              /\ tasks[adMu].kind \in {"Connect", "Disconnect"}
              /\ tasks[adMu].pc \in {"connect", "disconnect"}
              /\ \A t \in TaskIds \ {adMu} : tasks'[t] = tasks[t]
              /\ streams' = streams
              /\ pending' = pending
              /\ active' = active
              /\ Clients' = Clients]_vars

\* a CONNECT succeeded and released sa.mu while a scan was waiting for its deadline
\* and its driver goroutine was inside a discovery callback
C16_Witness ==
    /\ adMu = 0
    /\ Connected
    /\ \E t \in ConnectTasks : tasks[t].pc = "done" /\ Successes(t) # {}
    /\ \E t \in ScanTasks :
          /\ tasks[t].pc = "spin"
          /\ \E d \in DriversOf(t) : tasks[d].pc = "cbLog"

StopScanTasks == {t \in TaskIds : tasks[t].kind = "StopScan"}

\* C17: a dispatched STOP_SCAN makes one driver stop call, whether or not a scan
\* is running, and ends having sent exactly one entry: INFO "Stopped Scanning." when
\* the call succeeded, an ERROR when it failed; its steps change neither
\* AdapterState nor the Device Registry nor the Client Registry, nor any Scan
\* goroutine; a SCAN ends only after its own deadline expired and it made its own
\* stop call, whatever STOP_SCAN did meanwhile.
C17_StopScanIsOneCallOneEntry ==
    /\ [](\A t \in StopScanTasks :
            /\ Len(tasks[t].calls) <= 1
            /\ tasks[t].pc = "start" => tasks[t].calls = <<>> /\ tasks[t].logs = <<>>
            /\ tasks[t].pc \in {"logStopped", "logFailed"} =>
                  Len(tasks[t].calls) = 1 /\ tasks[t].logs = <<>>
            /\ tasks[t].pc = "done" =>
                  /\ Len(tasks[t].calls) = 1
                  /\ tasks[t].calls[1].op = "stop"
                  /\ tasks[t].logs =
                        IF tasks[t].calls[1].ok
                        THEN <<LogInfo(<<"Stopped Scanning.">>)>>
                        ELSE <<LogError(<<"Could not stop scanning -", DriverErr>>)>>)
    /\ [](\A t \in ScanTasks :
            tasks[t].pc \in {"logStopped", "done"} =>
               /\ tasks[t].expired
               /\ Len(tasks[t].calls) = 1
               /\ tasks[t].calls[1].op = "stop")
    /\ [][\A t \in StopScanTasks :
             tasks'[t] # tasks[t]
             => /\ UNCHANGED <<Connected, BTDevice, adMu, Devices, devMu, Clients, clMu>>
                /\ \A u \in TaskIds \ {t} : tasks'[u] = tasks[u]]_vars

\* a STOP_SCAN ran to its end while a scan was waiting for its deadline; the deadline
\* has since expired and the scan has made its own stop call
C17_Witness ==
    \E t \in StopScanTasks, u \in ScanTasks :
       /\ tasks[t].pc = "done"
       /\ tasks[t].calls[1].ok
       /\ tasks[u].pc = "logStopped"
       /\ \E d \in DriversOf(u) : tasks[d].pc = "start"

\* how many times the frame of entry n was written to subscriber c
Writes(c, n) == Cardinality({i \in 1..Len(sink[c]) : sink[c][i].id = n})

\* C18 (as claimed): when the loop of a broadcast has ended, every subscriber whose
\* write failed in it is out of the registry, and every subscriber that was
\* registered when it started, whose write did not fail and whose connection is not
\* cancelled, is still registered and was written the frame exactly once.
C18_EvictionSparesTheOthers ==
    (clMu /\ active.i = active.n) =>
       \A k \in 1..Len(active.start) :
          LET c == active.start[k]
          IN /\ c \in active.failed => ~InList(c)
             /\ (c \notin active.failed /\ ~streams[c].cancelled)
                => InList(c) /\ Writes(c, active.id) = 1

\* C19 (as claimed): no broadcast panics on a removal: whenever the loop is about
\* to remove the subscriber at index i, i + 1 is within the current list, and the
\* process is never brought down inside a broadcast.
C19_RemovalIndexInRange == ~(clMu /\ panicked)

\* the handler of stream c has left both purge loops and appended its subscriber
Registered(c) == streams[c].pc \in {"flush", "forEach", "replay", "wait", "closed"}

\* C20 (as claimed): every stream that is opened eventually finishes both purges
\* and registers its subscriber.
C20_OpenEventuallyRegisters ==
    \A c \in 1..MaxOpen : [](c \in StreamIds => <>(c \in StreamIds /\ Registered(c)))


LogSteps == {"logConflict", "logNotFound", "logFailed", "logConnected",
             "logNotConnected", "logDisconnected"}

Blocked(t) == t \in TaskIds /\ tasks[t].pc \in LogSteps /\ adMu = t

Returned(t) == t \in TaskIds /\ tasks[t].pc = "done" /\ adMu # t

\* sa.Adapter.Connect is in progress, under sa.mu
DriverCall == \E t \in TaskIds : At(t, "Connect", "connect") /\ adMu = t

\* C21: the bounded queues never deadlock.  A full Log Stream always gets room
\* again, because the Broadcast Loop dequeues without waiting for anything; so the
\* stream handler that replays the registry under the registry lock sends its
\* entries and releases the lock, and a Connect or Disconnect that holds the adapter
\* lock with an entry to send sends it and returns.  A full Command Queue always
\* gets room again, and every request waiting to enqueue its command does enqueue
\* it: while a driver call stays in progress the Event Loop still dispatches every
\* command.
C21_FullQueuesAlwaysDrain ==
    /\ (~CanSend) ~> CanSend
    /\ (~CanEnqueue) ~> CanEnqueue
    /\ \A c \in 1..MaxOpen : (devMu = <<"stream", c>>) ~> (devMu = Free)
    /\ \A t \in 1..(EventQueueCap + MaxDisconnect + 1) :
          Blocked(t) ~> Returned(t)
    /\ (quota.disconnect > 0) ~> (quota.disconnect = 0)
    /\ (~CanEnqueue /\ DriverCall)
          ~> (Len(EventQueue) = 0 /\ quota.disconnect = 0 /\ DriverCall)

\* the Log Stream was full while the replaying handler held the registry lock and a
\* Connect held the adapter lock with its entry to send: both have sent and released
\* their locks, the DISCONNECT that arrived meanwhile has run, and the Log Stream
\* has been drained
C21_Witness ==
    /\ Len(Logs) = 0
    /\ \E c \in StreamIds : streams[c].pc = "wait" /\ streams[c].todo = {} /\ devMu = Free
    /\ \E t \in TaskIds : tasks[t].kind = "Connect" /\ Returned(t) /\ Len(tasks[t].logs) = 1
    /\ \E t \in TaskIds : tasks[t].kind = "Disconnect" /\ Returned(t)

====
